---------------------------- MODULE Spec2Model ----------------------------
(***************************************************************************)
(* Model of laozhao43/485sensor-viz.                                       *)
(*                                                                         *)
(*   modviz5.py  live acquisition: the SensorReader thread (setup, the     *)
(*               sampling loop, interval flush, cleanup) and the Qt main   *)
(*               thread (queued data_ready deliveries, closeEvent/stop).   *)
(*   viz.py      playback: get_frame_time_idx over a loaded timestamp      *)
(*               sequence.                                                 *)
(*                                                                         *)
(* Time is counted in ticks of an abstract wall clock `now`; timestamps    *)
(* are integers (milliseconds in the playback part).  An optional float    *)
(* (a reading or None) is the sequence <<v>> or <<>>.                      *)
(***************************************************************************)
EXTENDS Integers, Sequences, FiniteSets, TLC

VARIABLES
    \* ---- modviz5.py: SensorReader (acquisition thread)
    pc,                       \* position of SensorReader.run
    running,                  \* self._running
    instruments,              \* self.instruments: indices into SENSORS, in order
    setupIdx,                 \* loop variable of the setup loop (line 136)
    openPorts,                \* serial ports currently open
    readings_buffer,          \* self.readings_buffer
    start_time_csv_write,     \* local of run (line 151)
    loop_start_time,          \* local of run (line 155)
    timestamp_for_reading,    \* local of run (line 154)
    current_data_row_values,  \* local of run (line 157)
    wake,                     \* when the time.sleep of line 183 returns
    now,                      \* wall clock
    csv,                      \* the log file: [exists, recs]
    \* ---- modviz5.py: Qt main thread
    mainpc,                   \* position of the main thread
    uiQueue,                  \* queued data_ready deliveries, not yet handled
    data_buffers,             \* MainWindow.data_buffers (one deque per SENSORS entry)
    \* ---- history (not program state)
    outcomes,                 \* read outcomes of the round in progress
    produced,                 \* every row appended to readings_buffer so far
    flushes,                  \* number of successful non-empty writes
    failed,                   \* a write has raised
    failPending,              \* readings_buffer when that write raised
    stopBuf,                  \* readings_buffer when stop() was called
    stopLog,                  \* data records of the log at that time
    \* ---- viz.py
    vpc,                      \* position of the script: "load", "ready", "exited"
    csv_in,                   \* the log file read: [cols, recs]
    df_index,                 \* df.index: labels (0-based record numbers) of the rows kept
    sensor_cols,              \* columns of the file selected as channels
    ride_height_data,         \* value matrix, one row per kept record
    time_data,                \* loaded timestamps (ms)
    frame,                    \* last frame handed to animate
    idx,                      \* what get_frame_time_idx returned for it
    mask,                     \* boolean mask of animate
    t,                        \* time slice of animate
    y,                        \* value slices of animate, one per channel
    \* ---- modviz5.py, the sampling loop at the resolution of its clock
    rate_pc,                  \* "off", "loop", "crashed"
    rate_time,                \* time.time()
    rate_start_time_csv_write,
    rate_current_time_for_csv,
    rate_buffer_len,          \* len(self.readings_buffer)
    rate_rounds,              \* rounds completed
    rate_flush_sizes          \* the "Appended N readings to CSV." lines, in order

liveVars == <<pc, running, instruments, setupIdx, openPorts, readings_buffer,
              start_time_csv_write, loop_start_time, timestamp_for_reading,
              current_data_row_values, wake, now, csv, mainpc, uiQueue,
              data_buffers, outcomes, produced, flushes, failed, failPending,
              stopBuf, stopLog>>
vizVars == <<vpc, csv_in, df_index, sensor_cols, ride_height_data, time_data,
             frame, idx, mask, t, y>>
rateVars == <<rate_pc, rate_time, rate_start_time_csv_write, rate_current_time_for_csv,
              rate_buffer_len, rate_rounds, rate_flush_sizes>>
vars == <<liveVars, vizVars, rateVars>>

-----------------------------------------------------------------------------
(* Bounds of the model *)

MaxRounds == 3
MaxTime == 3
\* csv_write_frequency_s and target_loop_duration, in clock ticks
CsvWriteTicks == 2
TargetLoopTicks == 1
\* maxlen of the plotting deques, scaled down
DequeMaxLen == 2

RawValues == {5096}

-----------------------------------------------------------------------------
(* modviz5.py: configuration *)

None == <<>>
Some(v) == <<v>>
\* float('nan'): a float different from every reading
NaN == <<0, 0>>

SENSORS ==
    << [PORT |-> "COM12", SLAVE_ADDRESS |-> 1, NUMBER_OF_REGISTERS |-> 3,
        REGISTER_INDEX_TO_LOG |-> 0, SCALE_FACTOR |-> 1,
        NAME |-> "Sensor 1", UNIT |-> "mm", has_scale_function |-> FALSE],
       [PORT |-> "COM12", SLAVE_ADDRESS |-> 2, NUMBER_OF_REGISTERS |-> 2,
        REGISTER_INDEX_TO_LOG |-> 1, SCALE_FACTOR |-> 1,
        NAME |-> "Sensor 2", UNIT |-> "mm", has_scale_function |-> TRUE] >>

\* the lambda of Sensor 2; raw values are chosen so that the division is exact
scale_function(x_val) == ((x_val - 1000) * 100) \div 4096

CSV_HEADER ==
    <<"Timestamp">> \o [i \in 1..Len(SENSORS) |-> <<SENSORS[i].NAME, SENSORS[i].UNIT>>]

\* A record of the log file.  Header and data records are told apart by hdr.
HeaderRec(header) == [hdr |-> TRUE, row |-> header]
DataRec(r) == [hdr |-> FALSE, row |-> r]

IsData(rec) == ~rec.hdr
DataRows(recs) ==
    LET d == SelectSeq(recs, IsData) IN [i \in 1..Len(d) |-> d[i].row]
HeaderCount(recs) == Len(recs) - Len(SelectSeq(recs, IsData))

\* instrument.read_registers: a block of NUMBER_OF_REGISTERS values, or an
\* exception (timeout, CRC error, no answer)
ReadOutcomes(sensor_config) ==
    {[ok |-> FALSE, registers |-> <<>>]}
    \cup {[ok |-> TRUE, registers |-> r] :
              r \in [1..sensor_config.NUMBER_OF_REGISTERS -> RawValues]}

read_sensor_data(outcome, sensor_config) ==
    IF ~outcome.ok THEN None
    ELSE LET raw_value == outcome.registers[sensor_config.REGISTER_INDEX_TO_LOG + 1] IN
         IF sensor_config.has_scale_function
         THEN Some(scale_function(raw_value))
         ELSE Some(raw_value * sensor_config.SCALE_FACTOR)

\* write_to_csv without the file_exists test: the header goes out on every call
write_to_csv_always_header(data_rows, f, header) ==
    IF data_rows = <<>> THEN f
    ELSE [exists |-> TRUE,
          recs |-> f.recs \o <<HeaderRec(header)>>
                   \o [i \in 1..Len(data_rows) |-> DataRec(data_rows[i])]]

\* write_to_csv when every call succeeds
write_to_csv(data_rows, f, header) ==
    IF data_rows = <<>> THEN f
    ELSE [exists |-> TRUE,
          recs |-> f.recs
                   \o (IF ~f.exists THEN <<HeaderRec(header)>> ELSE <<>>)
                   \o [i \in 1..Len(data_rows) |-> DataRec(data_rows[i])]]

\* write_to_csv when it raises.  k < 0: an open() fails and nothing is
\* written.  k >= 0: the file was opened for append and a write failed after
\* the header (for a new file) and the first k rows (k < len) reached it.
write_to_csv_raises(data_rows, f, header, k) ==
    IF k < 0 THEN f
    ELSE [exists |-> TRUE,
          recs |-> f.recs
                   \o (IF ~f.exists THEN <<HeaderRec(header)>> ELSE <<>>)
                   \o [i \in 1..k |-> DataRec(data_rows[i])]]

-----------------------------------------------------------------------------
(* modviz5.py: state after construction (lines 120-132, 206-243, 287-290) *)

InitLive ==
    /\ pc = "idle"
    /\ running = TRUE
    /\ instruments = <<>>
    /\ setupIdx = 1
    /\ openPorts = {}
    /\ readings_buffer = <<>>
    /\ start_time_csv_write = 0
    /\ loop_start_time = 0
    /\ timestamp_for_reading = 0
    /\ current_data_row_values = <<>>
    /\ wake = 0
    /\ now = 0
    /\ csv = [exists |-> FALSE, recs |-> <<>>]
    /\ mainpc = "main"
    /\ uiQueue = <<>>
    /\ data_buffers = [i \in 1..Len(SENSORS) |-> <<>>]
    /\ outcomes = <<>>
    /\ produced = <<>>
    /\ flushes = 0
    /\ failed = FALSE
    /\ failPending = <<>>
    /\ stopBuf = <<>>
    /\ stopLog = <<>>

histVars == <<outcomes, produced, flushes, failed, failPending, stopBuf, stopLog>>
uiVars == <<mainpc, uiQueue, data_buffers>>
loopLocals == <<start_time_csv_write, loop_start_time, timestamp_for_reading,
                current_data_row_values, wake>>

-----------------------------------------------------------------------------
(* modviz5.py: the wall clock.  Only run() reads it. *)

InLoop == pc \in {"while", "read", "emit", "append", "flushcheck", "pace", "sleeping"}

Tick ==
    /\ InLoop \/ pc = "setup"
    /\ now < MaxTime
    /\ now' = now + 1
    /\ UNCHANGED <<pc, running, instruments, setupIdx, openPorts, readings_buffer,
                   loopLocals, csv, uiVars, histVars, vizVars, rateVars>>

-----------------------------------------------------------------------------
(* modviz5.py: SensorReader.run *)

\* line 294: sensor_reader.start(), then app.exec_() (line 297)
StartThread ==
    /\ mainpc = "main"
    /\ pc = "idle"
    /\ pc' = "setup"
    /\ mainpc' = "exec"
    /\ UNCHANGED <<running, instruments, setupIdx, openPorts, readings_buffer,
                   loopLocals, now, csv, uiQueue, data_buffers, histVars, vizVars, rateVars>>

\* lines 136-142: one iteration of the setup loop; the constructor of the
\* instrument opens the port and may raise
SetupInstrument ==
    /\ pc = "setup"
    /\ setupIdx <= Len(SENSORS)
    /\ \E ok \in BOOLEAN :
         /\ instruments' = IF ok THEN Append(instruments, setupIdx) ELSE instruments
         /\ openPorts' = IF ok THEN openPorts \cup {SENSORS[setupIdx].PORT} ELSE openPorts
    /\ setupIdx' = setupIdx + 1
    /\ UNCHANGED <<pc, running, readings_buffer, loopLocals, now, csv, uiVars,
                   histVars, vizVars, rateVars>>

\* lines 144-151 without the test of line 144
CheckInstruments_NoCheck ==
    /\ pc = "setup"
    /\ setupIdx > Len(SENSORS)
    /\ start_time_csv_write' = now
    /\ pc' = "while"
    /\ UNCHANGED <<running, instruments, setupIdx, openPorts, readings_buffer,
                   loop_start_time, timestamp_for_reading, current_data_row_values,
                   wake, now, csv, uiVars, histVars, vizVars, rateVars>>

\* lines 144-151
CheckInstruments ==
    /\ pc = "setup"
    /\ setupIdx > Len(SENSORS)
    /\ IF instruments = <<>>
       THEN /\ running' = FALSE
            /\ pc' = "done"
            /\ UNCHANGED start_time_csv_write
       ELSE /\ start_time_csv_write' = now
            /\ pc' = "while"
            /\ UNCHANGED running
    /\ UNCHANGED <<instruments, setupIdx, openPorts, readings_buffer, loop_start_time,
                   timestamp_for_reading, current_data_row_values, wake, now, csv,
                   uiVars, histVars, vizVars, rateVars>>

\* lines 153-157 with the loop test always true
LoopCheck_IgnoresStop ==
    /\ pc = "while"
    /\ Len(produced) < MaxRounds
    /\ now < MaxTime
    /\ timestamp_for_reading' = now
    /\ loop_start_time' = now
    /\ current_data_row_values' = <<>>
    /\ outcomes' = <<>>
    /\ pc' = "read"
    /\ UNCHANGED <<running, instruments, setupIdx, openPorts, readings_buffer,
                   start_time_csv_write, wake, now, csv, uiVars, produced, flushes,
                   failed, failPending, stopBuf, stopLog, vizVars, rateVars>>

\* lines 153-157: the loop test and the head of a round.  A round starts only
\* while the clock leaves room for its sleep to end.
LoopCheck ==
    /\ pc = "while"
    /\ IF running
       THEN /\ Len(produced) < MaxRounds
            /\ now < MaxTime
            /\ timestamp_for_reading' = now
            /\ loop_start_time' = now
            /\ current_data_row_values' = <<>>
            /\ outcomes' = <<>>
            /\ pc' = "read"
       ELSE /\ pc' = "cleanup"
            /\ UNCHANGED <<timestamp_for_reading, loop_start_time,
                           current_data_row_values, outcomes>>
    /\ UNCHANGED <<running, instruments, setupIdx, openPorts, readings_buffer,
                   start_time_csv_write, wake, now, csv, uiVars, produced, flushes,
                   failed, failPending, stopBuf, stopLog, vizVars, rateVars>>

\* lines 158-160 with a failed read ending the read loop
ReadSensor_AbortsRound ==
    /\ pc = "read"
    /\ Len(current_data_row_values) < Len(instruments)
    /\ LET item == instruments[Len(current_data_row_values) + 1] IN
       \E outcome \in ReadOutcomes(SENSORS[item]) :
         /\ current_data_row_values' =
                IF outcome.ok
                THEN Append(current_data_row_values,
                            read_sensor_data(outcome, SENSORS[item]))
                ELSE current_data_row_values
         /\ outcomes' = Append(outcomes, [item |-> item, outcome |-> outcome])
         /\ pc' = IF ~outcome.ok \/ Len(current_data_row_values) + 1 = Len(instruments)
                  THEN "emit" ELSE "read"
    /\ UNCHANGED <<running, instruments, setupIdx, openPorts, readings_buffer,
                   start_time_csv_write, loop_start_time, timestamp_for_reading, wake,
                   now, csv, uiVars, produced, flushes, failed, failPending, stopBuf,
                   stopLog, vizVars, rateVars>>

\* lines 158-160: one iteration of the read loop
ReadSensor ==
    /\ pc = "read"
    /\ Len(current_data_row_values) < Len(instruments)
    /\ LET item == instruments[Len(current_data_row_values) + 1] IN
       \E outcome \in ReadOutcomes(SENSORS[item]) :
         /\ current_data_row_values' =
                Append(current_data_row_values, read_sensor_data(outcome, SENSORS[item]))
         /\ outcomes' = Append(outcomes, [item |-> item, outcome |-> outcome])
    /\ pc' = IF Len(current_data_row_values) + 1 = Len(instruments) THEN "emit" ELSE "read"
    /\ UNCHANGED <<running, instruments, setupIdx, openPorts, readings_buffer,
                   start_time_csv_write, loop_start_time, timestamp_for_reading, wake,
                   now, csv, uiVars, produced, flushes, failed, failPending, stopBuf,
                   stopLog, vizVars, rateVars>>

\* line 163 as a blocking hand-off: emit returns only once the slot is free
Emit_Blocking ==
    /\ pc = "emit"
    /\ uiQueue = <<>>
    /\ uiQueue' = Append(uiQueue, current_data_row_values)
    /\ pc' = "append"
    /\ UNCHANGED <<running, instruments, setupIdx, openPorts, readings_buffer,
                   loopLocals, now, csv, mainpc, data_buffers, histVars, vizVars, rateVars>>

\* line 163: data_ready.emit from the reader thread to a slot of the main
\* thread is a queued connection: the round is posted and emit returns
Emit ==
    /\ pc = "emit"
    /\ uiQueue' = Append(uiQueue, current_data_row_values)
    /\ pc' = "append"
    /\ UNCHANGED <<running, instruments, setupIdx, openPorts, readings_buffer,
                   loopLocals, now, csv, mainpc, data_buffers, histVars, vizVars, rateVars>>

\* line 166
AppendRow ==
    /\ pc = "append"
    /\ readings_buffer' =
           Append(readings_buffer, <<timestamp_for_reading>> \o current_data_row_values)
    /\ produced' = Append(produced, <<timestamp_for_reading>> \o current_data_row_values)
    /\ pc' = "flushcheck"
    /\ UNCHANGED <<running, instruments, setupIdx, openPorts, loopLocals, now, csv,
                   uiVars, outcomes, flushes, failed, failPending, stopBuf, stopLog,
                   vizVars, rateVars>>

FlushDue == now - start_time_csv_write >= CsvWriteTicks

\* lines 169-175 with line 174 left out: the buffer is kept after the write
FlushCheck_KeepsBuffer ==
    /\ pc = "flushcheck"
    /\ IF FlushDue
       THEN /\ IF readings_buffer # <<>>
               THEN /\ csv' = write_to_csv(readings_buffer, csv, CSV_HEADER)
                    /\ flushes' = flushes + 1
               ELSE UNCHANGED <<csv, flushes>>
            /\ start_time_csv_write' = now
       ELSE UNCHANGED <<csv, flushes, start_time_csv_write>>
    /\ pc' = "pace"
    /\ UNCHANGED <<running, instruments, setupIdx, openPorts, loop_start_time,
                   timestamp_for_reading, current_data_row_values, wake, now, uiVars,
                   outcomes, produced, failed, failPending, stopBuf, stopLog,
                   readings_buffer, vizVars, rateVars>>

\* lines 169-175, write_to_csv returning
FlushCheck ==
    /\ pc = "flushcheck"
    /\ IF FlushDue
       THEN /\ IF readings_buffer # <<>>
               THEN /\ csv' = write_to_csv(readings_buffer, csv, CSV_HEADER)
                    /\ readings_buffer' = <<>>
                    /\ flushes' = flushes + 1
               ELSE UNCHANGED <<csv, readings_buffer, flushes>>
            /\ start_time_csv_write' = now
       ELSE UNCHANGED <<csv, readings_buffer, flushes, start_time_csv_write>>
    /\ pc' = "pace"
    /\ UNCHANGED <<running, instruments, setupIdx, openPorts, loop_start_time,
                   timestamp_for_reading, current_data_row_values, wake, now, uiVars,
                   outcomes, produced, failed, failPending, stopBuf, stopLog, vizVars, rateVars>>

\* an exception leaves run(): nothing in run() catches it, lines 173-197 are skipped
Raise(k) ==
    /\ csv' = write_to_csv_raises(readings_buffer, csv, CSV_HEADER, k)
    /\ pc' = "crashed"
    /\ failed' = TRUE
    /\ failPending' = readings_buffer
    /\ UNCHANGED <<running, instruments, setupIdx, openPorts, readings_buffer,
                   loopLocals, now, uiVars, outcomes, produced, flushes, stopBuf,
                   stopLog, vizVars, rateVars>>

\* line 172, write_to_csv raising (OSError: disk full, permission denied, ...)
FlushCheckRaises ==
    /\ pc = "flushcheck"
    /\ FlushDue
    /\ readings_buffer # <<>>
    /\ \E k \in -1..(Len(readings_buffer) - 1) : Raise(k)

\* lines 178-183
Pace ==
    /\ pc = "pace"
    /\ LET sleep_duration == TargetLoopTicks - (now - loop_start_time) IN
       IF sleep_duration > 0
       THEN /\ wake' = now + sleep_duration
            /\ pc' = "sleeping"
       ELSE /\ pc' = "while"
            /\ UNCHANGED wake
    /\ UNCHANGED <<running, instruments, setupIdx, openPorts, readings_buffer,
                   start_time_csv_write, loop_start_time, timestamp_for_reading,
                   current_data_row_values, now, csv, uiVars, histVars, vizVars, rateVars>>

\* line 183: time.sleep returns
Wake ==
    /\ pc = "sleeping"
    /\ now >= wake
    /\ pc' = "while"
    /\ UNCHANGED <<running, instruments, setupIdx, openPorts, readings_buffer,
                   loopLocals, now, csv, uiVars, histVars, vizVars, rateVars>>

\* lines 188-191 without the write
FinalFlush_NoWrite ==
    /\ pc = "cleanup"
    /\ pc' = "close"
    /\ UNCHANGED <<running, instruments, setupIdx, openPorts, readings_buffer,
                   loopLocals, now, csv, uiVars, histVars, vizVars, rateVars>>

\* lines 188-191, write_to_csv returning; the buffer is not reassigned here
FinalFlush ==
    /\ pc = "cleanup"
    /\ IF readings_buffer # <<>>
       THEN /\ csv' = write_to_csv(readings_buffer, csv, CSV_HEADER)
            /\ flushes' = flushes + 1
       ELSE UNCHANGED <<csv, flushes>>
    /\ pc' = "close"
    /\ UNCHANGED <<running, instruments, setupIdx, openPorts, readings_buffer,
                   loopLocals, now, uiVars, outcomes, produced, failed, failPending,
                   stopBuf, stopLog, vizVars, rateVars>>

\* line 190, write_to_csv raising
FinalFlushRaises ==
    /\ pc = "cleanup"
    /\ readings_buffer # <<>>
    /\ \E k \in -1..(Len(readings_buffer) - 1) : Raise(k)

\* lines 194-197
ClosePorts ==
    /\ pc = "close"
    /\ openPorts' = openPorts \ {SENSORS[instruments[i]].PORT : i \in 1..Len(instruments)}
    /\ pc' = "done"
    /\ UNCHANGED <<running, instruments, setupIdx, readings_buffer, loopLocals, now,
                   csv, uiVars, histVars, vizVars, rateVars>>

-----------------------------------------------------------------------------
(* modviz5.py: the Qt main thread *)

\* list.append: nothing is evicted
list_append(d, x) == Append(d, x)

\* collections.deque(maxlen=...).append
deque_append(d, x) ==
    IF Len(d) < DequeMaxLen THEN Append(d, x) ELSE Append(Tail(d), x)

\* lines 250-268: the slot handles the oldest queued round
update_plot_buffers(bufs, sensor_values) ==
    [i \in DOMAIN bufs |->
        IF i <= Len(sensor_values)
        THEN deque_append(bufs[i],
                          IF sensor_values[i] # None THEN sensor_values[i] ELSE NaN)
        ELSE bufs[i]]

UpdatePlot ==
    /\ mainpc \in {"exec", "closed"}
    /\ uiQueue # <<>>
    /\ data_buffers' = update_plot_buffers(data_buffers, Head(uiQueue))
    /\ uiQueue' = Tail(uiQueue)
    /\ UNCHANGED <<pc, running, instruments, setupIdx, openPorts, readings_buffer,
                   loopLocals, now, csv, mainpc, histVars, vizVars, rateVars>>

\* lines 276-278 and 200: closeEvent calls stop(), which clears _running
CloseEvent ==
    /\ mainpc = "exec"
    /\ running' = FALSE
    /\ mainpc' = "wait"
    /\ stopBuf' = readings_buffer
    /\ stopLog' = DataRows(csv.recs)
    /\ UNCHANGED <<pc, instruments, setupIdx, openPorts, readings_buffer, loopLocals,
                   now, csv, uiQueue, data_buffers, outcomes, produced, flushes,
                   failed, failPending, vizVars, rateVars>>

ThreadFinished == pc \in {"done", "crashed"}

\* line 201: self.wait() returns once run() has ended; then line 279
StopReturns ==
    /\ mainpc = "wait"
    /\ ThreadFinished
    /\ mainpc' = "closed"
    /\ UNCHANGED <<pc, running, instruments, setupIdx, openPorts, readings_buffer,
                   loopLocals, now, csv, uiQueue, data_buffers, histVars, vizVars, rateVars>>

\* line 297: exec_() returns after the last window closed; the script ends
ProcessExit ==
    /\ mainpc = "closed"
    /\ mainpc' = "exited"
    /\ UNCHANGED <<pc, running, instruments, setupIdx, openPorts, readings_buffer,
                   loopLocals, now, csv, uiQueue, data_buffers, histVars, vizVars, rateVars>>

\* PyQt5 >= 5.5 ends the process (qFatal) on an exception that leaves run();
\* earlier versions print the traceback and only the thread ends
Abort ==
    /\ pc = "crashed"
    /\ mainpc \in {"exec", "wait", "closed"}
    /\ mainpc' = "aborted"
    /\ UNCHANGED <<pc, running, instruments, setupIdx, openPorts, readings_buffer,
                   loopLocals, now, csv, uiQueue, data_buffers, histVars, vizVars, rateVars>>

AcqStep ==
    \/ SetupInstrument
    \/ CheckInstruments
    \/ LoopCheck
    \/ ReadSensor
    \/ Emit
    \/ AppendRow
    \/ FlushCheck
    \/ FlushCheckRaises
    \/ Pace
    \/ Wake
    \/ FinalFlush
    \/ FinalFlushRaises
    \/ ClosePorts

Next ==
    \/ StartThread
    \/ Tick
    \/ AcqStep
    \/ UpdatePlot
    \/ CloseEvent
    \/ StopReturns
    \/ ProcessExit
    \/ Abort

-----------------------------------------------------------------------------
(* viz.py: frame mapping *)

MaxLen == 3
MaxFrame == 3
FarFrame == 92
TimeVals == {0, 33, 34, 100, 3034, 3100}
Frames == (0..MaxFrame) \cup {FarFrame - 1, FarFrame}

target_fps == 30

\* lines 90-93, in ms; it is zero exactly when the duration in seconds is
total_duration(T) == IF Len(T) > 1 THEN T[Len(T)] - T[1] ELSE 0

\* np.searchsorted(arr, key, side='right') for one key: numpy's bisection,
\* which probes arr[mid] whether or not arr is sorted.  Indices are 0-based.
RECURSIVE binsearch_right(_, _, _, _)
binsearch_right(arr, key, min_idx, max_idx) ==
    IF min_idx >= max_idx THEN min_idx
    ELSE LET mid_idx == min_idx + ((max_idx - min_idx) \div 2) IN
         IF arr[mid_idx + 1] <= key
         THEN binsearch_right(arr, key, mid_idx + 1, max_idx)
         ELSE binsearch_right(arr, key, min_idx, mid_idx)

searchsorted_right(arr, key) == binsearch_right(arr, key, 0, Len(arr))

\* np.clip
clip(x, lo, hi) == IF x < lo THEN lo ELSE IF x > hi THEN hi ELSE x

\* line 104 with the sign of the offset slipped
target_time_minus(f) == time_data[1] - ((f * 1000) \div target_fps)

\* lines 103-104: int() truncates; for frames >= 0 that is the floor
target_time(f) == time_data[1] + ((f * 1000) \div target_fps)

\* lines 98-108; the result is a 0-based index
get_frame_time_idx(f) ==
    IF total_duration(time_data) = 0 \/ Len(time_data) = 1 THEN 0
    ELSE clip(searchsorted_right(time_data, target_time(f)) - 1, 0, Len(time_data) - 1)

\* line 96
n_frames ==
    IF total_duration(time_data) > 0
    THEN (total_duration(time_data) * target_fps + 999) \div 1000
    ELSE Len(time_data)

-----------------------------------------------------------------------------
(* viz.py: the loader *)

\* pd.to_datetime(errors='coerce') gives NaT for a text that does not match
\* the format; numpy holds NaT as the smallest int64, below every timestamp
NaT == -1

\* A timestamp field of the file is a text: [ok, ms], ok when it matches
\* '%Y-%m-%d %H:%M:%S.%f' and then denotes ms.
to_datetime(text) == IF text.ok THEN text.ms ELSE NaT

TsTexts == {[ok |-> TRUE, ms |-> m] : m \in TimeVals} \cup {[ok |-> FALSE, ms |-> 0]}

\* The columns of a file after "Timestamp", each given by the unit that ends
\* its name; re.search(r'\(mm\)$', col) selects the ones ending in "(mm)".
ColChoices == { <<"mm", "mm">>, <<"V", "mm">>, <<"V">>,
                <<"mm", "mm", "mm", "mm", "mm">> }

\* the value of column c in record k of a file: every cell is different
Cell(k, c) == 10 * k + c

Files ==
    UNION { { [cols |-> cs,
               recs |-> [k \in 1..n |->
                           [ts |-> ts[k], vals |-> [c \in 1..Len(cs) |-> Cell(k, c)]]]] :
              ts \in [1..n -> TsTexts] } :
            <<cs, n>> \in ColChoices \X (0..MaxLen) }

\* lines 20-23: the frame, one row per record, labelled from 0
read_csv(file) ==
    [k \in 1..Len(file.recs) |->
        [label |-> k - 1,
         ts |-> to_datetime(file.recs[k].ts),
         vals |-> file.recs[k].vals]]

notnull(row) == row.ts # NaT

\* line 24
isnull_any(df) == \E i \in 1..Len(df) : ~notnull(df[i])

\* line 26 without inplace=True: the frame is left as it was
dropna_not_inplace(df) == df

\* line 26: df.dropna(subset=[TIMESTAMP_COL_NAME], inplace=True)
dropna(df) == SelectSeq(df, notnull)

\* line 30: the matching columns, in file order
RECURSIVE select_mm(_, _)
select_mm(cols, c) ==
    IF c > Len(cols) THEN <<>>
    ELSE (IF cols[c] = "mm" THEN <<c>> ELSE <<>>) \o select_mm(cols, c + 1)

\* lines 53-59: at most four channels are plotted
first_four(cols) == IF Len(cols) > 4 THEN SubSeq(cols, 1, 4) ELSE cols

\* before the script has loaded anything
InitViz ==
    /\ vpc = "load"
    /\ csv_in \in Files
    /\ df_index = <<>>
    /\ sensor_cols = <<>>
    /\ ride_height_data = <<>>
    /\ time_data = <<>>
    /\ frame = -1
    /\ idx = 0
    /\ mask = <<>>
    /\ t = <<>>
    /\ y = <<>>

\* lines 19-59
Load ==
    /\ vpc = "load"
    /\ LET df0 == read_csv(csv_in)
           df == IF isnull_any(df0) THEN dropna(df0) ELSE df0
           cols == select_mm(csv_in.cols, 1)
       IN  IF (isnull_any(df0) /\ df = <<>>) \/ cols = <<>>
           THEN /\ vpc' = "exited"
                /\ UNCHANGED <<df_index, sensor_cols, ride_height_data, time_data>>
           ELSE /\ vpc' = "ready"
                /\ df_index' = [i \in 1..Len(df) |-> df[i].label]
                /\ sensor_cols' = first_four(cols)
                /\ ride_height_data' =
                       [i \in 1..Len(df) |->
                           [j \in 1..Len(first_four(cols)) |-> df[i].vals[cols[j]]]]
                /\ time_data' = [i \in 1..Len(df) |-> df[i].ts]
    /\ UNCHANGED <<csv_in, frame, idx, mask, t, y, liveVars, rateVars>>

-----------------------------------------------------------------------------
(* viz.py: the window of a frame *)

data_window_s == 3

\* line 114 with the lower end exclusive
window_mask_open(end_time) ==
    [i \in 1..Len(time_data) |->
        time_data[i] > end_time - data_window_s * 1000 /\ time_data[i] <= end_time]

\* lines 112-114
window_mask(end_time) ==
    [i \in 1..Len(time_data) |->
        time_data[i] >= end_time - data_window_s * 1000 /\ time_data[i] <= end_time]

\* a[mask]: the entries of a where the mask is set, in order
RECURSIVE take(_, _, _)
take(a, m, i) ==
    IF i > Len(a) THEN <<>>
    ELSE (IF m[i] THEN <<a[i]>> ELSE <<>>) \o take(a, m, i + 1)

\* lines 110-118: FuncAnimation calls animate(frame) for frame in range(n_frames)
Animate ==
    /\ vpc = "ready"
    /\ \E f \in Frames :
         /\ f < n_frames
         /\ frame' = f
         /\ idx' = get_frame_time_idx(f)
         /\ LET m == window_mask(time_data[get_frame_time_idx(f) + 1]) IN
            /\ mask' = m
            /\ t' = take(time_data, m, 1)
            /\ y' = [c \in 1..Len(sensor_cols) |->
                        take([i \in 1..Len(time_data) |-> ride_height_data[i][c]], m, 1)]
    /\ UNCHANGED <<vpc, csv_in, df_index, sensor_cols, ride_height_data, time_data,
                   liveVars, rateVars>>

NextViz ==
    \/ Load
    \/ Animate

-----------------------------------------------------------------------------
(* modviz5.py: the timing of the sampling loop, in clock units of 1/3000 s,
   with the frequencies of SensorReader.__init__ and rows only counted *)

TicksPerSecond == 3000
sensor_read_frequency_hz == 30
csv_write_frequency_s == 1
\* line 132
target_loop_duration == TicksPerSecond \div sensor_read_frequency_hz

RateRounds == 35
\* time from loop_start_time to current_time_for_csv: the reads of a round
WorkTicks == {10, 90, 150}
\* time by which time.sleep returns late
OversleepTicks == {0, 5}

InitRateIdle ==
    /\ rate_pc = "off"
    /\ rate_time = 0
    /\ rate_start_time_csv_write = 0
    /\ rate_current_time_for_csv = 0
    /\ rate_buffer_len = 0
    /\ rate_rounds = 0
    /\ rate_flush_sizes = <<>>

\* line 151: the flush timer is started right before the loop
InitRate ==
    /\ rate_pc = "loop"
    /\ rate_time = 0
    /\ rate_start_time_csv_write = 0
    /\ rate_current_time_for_csv = 0
    /\ rate_buffer_len = 0
    /\ rate_rounds = 0
    /\ rate_flush_sizes = <<>>

\* line 170
RateFlushDue(current_time_for_csv) ==
    current_time_for_csv - rate_start_time_csv_write >= csv_write_frequency_s * TicksPerSecond

\* lines 177-182: the clock when the next round starts
after_sleep(loop_start, loop_end, over) ==
    IF target_loop_duration - (loop_end - loop_start) > 0
    THEN loop_start + target_loop_duration + over
    ELSE loop_end

\* lines 153-183 with line 175 left out: the timer is never reset
RateRound_NoReset(work, over) ==
    /\ rate_pc = "loop"
    /\ rate_rounds < RateRounds
    /\ LET current_time_for_csv == rate_time + work IN
       /\ rate_current_time_for_csv' = current_time_for_csv
       /\ IF RateFlushDue(current_time_for_csv)
          THEN /\ rate_flush_sizes' = Append(rate_flush_sizes, rate_buffer_len + 1)
               /\ rate_buffer_len' = 0
          ELSE /\ rate_buffer_len' = rate_buffer_len + 1
               /\ UNCHANGED rate_flush_sizes
       /\ UNCHANGED rate_start_time_csv_write
       /\ rate_time' = after_sleep(rate_time, current_time_for_csv, over)
    /\ rate_rounds' = rate_rounds + 1
    /\ UNCHANGED <<rate_pc, liveVars, vizVars>>

\* lines 153-183: one round; the row is appended (line 166), then the buffer
\* is written and cleared when the flush is due, then the loop sleeps
RateRound(work, over) ==
    /\ rate_pc = "loop"
    /\ rate_rounds < RateRounds
    /\ LET current_time_for_csv == rate_time + work IN
       /\ rate_current_time_for_csv' = current_time_for_csv
       /\ IF RateFlushDue(current_time_for_csv)
          THEN /\ rate_flush_sizes' = Append(rate_flush_sizes, rate_buffer_len + 1)
               /\ rate_buffer_len' = 0
               /\ rate_start_time_csv_write' = current_time_for_csv
          ELSE /\ rate_buffer_len' = rate_buffer_len + 1
               /\ UNCHANGED <<rate_flush_sizes, rate_start_time_csv_write>>
       /\ rate_time' = after_sleep(rate_time, current_time_for_csv, over)
    /\ rate_rounds' = rate_rounds + 1
    /\ UNCHANGED <<rate_pc, liveVars, vizVars>>

\* line 172 raising: the buffer, row included, is left as it is and run() ends
RateRoundRaises(work) ==
    /\ rate_pc = "loop"
    /\ rate_rounds < RateRounds
    /\ RateFlushDue(rate_time + work)
    /\ rate_current_time_for_csv' = rate_time + work
    /\ rate_buffer_len' = rate_buffer_len + 1
    /\ rate_time' = rate_time + work
    /\ rate_pc' = "crashed"
    /\ UNCHANGED <<rate_start_time_csv_write, rate_rounds, rate_flush_sizes,
                   liveVars, vizVars>>

NextRate ==
    \/ \E work \in WorkTicks, over \in OversleepTicks : RateRound(work, over)
    \/ \E work \in WorkTicks : RateRoundRaises(work)

-----------------------------------------------------------------------------
(* The programs *)

\* the live program alone: no series is loaded
InitVizIdle ==
    /\ vpc = "idle"
    /\ csv_in = [cols |-> <<>>, recs |-> <<>>]
    /\ df_index = <<>>
    /\ sensor_cols = <<>>
    /\ ride_height_data = <<>>
    /\ time_data = <<>>
    /\ frame = -1
    /\ idx = 0
    /\ mask = <<>>
    /\ t = <<>>
    /\ y = <<>>

Init == InitLive /\ InitVizIdle /\ InitRateIdle

Spec == Init /\ [][Next]_vars

\* the live program when the thread is scheduled, the clock advances and
\* QThread.wait() returns once run() has ended
FairSpec ==
    Init /\ [][Next]_vars /\ WF_vars(AcqStep) /\ WF_vars(Tick) /\ WF_vars(StopReturns)

\* the playback program alone
InitPlayback == InitLive /\ InitViz /\ InitRateIdle

SpecViz == InitPlayback /\ [][NextViz]_vars

\* the sampling loop alone, at clock resolution
InitTiming == InitLive /\ InitVizIdle /\ InitRate

SpecRate == InitTiming /\ [][NextRate]_vars

-----------------------------------------------------------------------------
(* Properties *)

StopReturned == mainpc \in {"closed", "exited"}

\* C1: when stop() is called while rows are buffered and no write raises,
\* then once stop() has returned the data records of the log are the records
\* it held when stop() was called, followed by exactly the rows buffered at
\* that time in their order, followed by at most the row of the round that
\* was in progress; nothing else is in the log and no row is there twice.
C1_ShutdownFlush ==
    (StopReturned /\ ~failed /\ stopBuf # <<>>) =>
        LET d == DataRows(csv.recs)
            n == Len(stopLog) + Len(stopBuf)
        IN  /\ Len(d) >= n
            /\ Len(d) <= n + 1
            /\ SubSeq(d, 1, n) = stopLog \o stopBuf
            /\ d = produced

C1_Witness ==
    /\ StopReturned /\ ~failed /\ pc = "done"
    /\ stopBuf # <<>>
    /\ stopLog # <<>>
    /\ DataRows(csv.recs) = stopLog \o stopBuf

\* C2: every step in which a write of the buffer succeeds (the interval flush
\* and the flush at shutdown alike) leaves the Pending Row Buffer empty.
C2_BufferEmptyAfterFlush ==
    [][flushes' > flushes => readings_buffer' = <<>>]_vars

\* C3: the log did not exist at the start; in every state at most one header
\* record is in it, a log that holds any record starts with the header, every
\* other record is a data record, and after a successful flush the header is
\* there (exactly once).
C3_HeaderOnce ==
    /\ HeaderCount(csv.recs) <= 1
    /\ csv.recs # <<>> =>
           /\ csv.recs[1].hdr
           /\ csv.recs[1].row = CSV_HEADER
           /\ \A i \in 2..Len(csv.recs) : ~csv.recs[i].hdr
    /\ flushes > 0 => (csv.exists /\ HeaderCount(csv.recs) = 1)

C3_Witness ==
    /\ flushes >= 2
    /\ ~failed
    /\ Len(csv.recs) >= 3

\* C4: once stop() has returned, the loop has ended, every buffered row is in
\* the log and every port is closed; and the ports are closed only after the
\* flush, and nothing is written or read after that.
C4_StopContract ==
    /\ StopReturned =>
           /\ pc = "done"
           /\ DataRows(csv.recs) = produced
           /\ openPorts = {}
    /\ pc \in {"close", "done"} => DataRows(csv.recs) = produced

\* C5: after a write has raised, every row that was pending then is in the
\* log, or is still in the buffer of a reader thread that runs and will flush.
C5_NoLossOnFailure ==
    failed =>
        \A i \in 1..Len(failPending) :
            \/ \E j \in 1..Len(DataRows(csv.recs)) :
                   DataRows(csv.recs)[j] = failPending[i]
            \/ /\ ~ThreadFinished
               /\ \E j \in 1..Len(readings_buffer) : readings_buffer[j] = failPending[i]

\* what a round holds for a channel, given what its read returned
ExpectedEntry(o) ==
    IF ~o.outcome.ok THEN None
    ELSE LET raw == o.outcome.registers[SENSORS[o.item].REGISTER_INDEX_TO_LOG + 1] IN
         IF o.item = 2 THEN Some(((raw - 1000) * 100) \div 4096) ELSE Some(raw)

C8_EmitNeverBlocks ==
    /\ pc = "emit" => ENABLED Emit
    /\ pc \in {"read", "emit", "append", "flushcheck", "pace", "cleanup", "close"} =>
           ENABLED AcqStep

C8_Witness ==
    /\ pc = "while"
    /\ mainpc = "exec"
    /\ flushes >= 1
    /\ Len(produced) >= 2
    /\ Len(uiQueue) = Len(produced)

\* C9: for the loaded series and frames f1 < f2, get_frame_time_idx(f1) <=
\* get_frame_time_idx(f2); the index of the frame drawn last is in line.
C9_Monotone ==
    /\ \A f1, f2 \in Frames : f1 < f2 => get_frame_time_idx(f1) <= get_frame_time_idx(f2)
    /\ frame >= 0 =>
           \A f \in Frames :
               /\ f < frame => get_frame_time_idx(f) <= idx
               /\ f > frame => idx <= get_frame_time_idx(f)

C9_Witness ==
    /\ frame = MaxFrame
    /\ idx = 1
    /\ get_frame_time_idx(0) = 0

\* index (0-based) of the last timestamp <= t, or -1
LastNotAfter(T, target) ==
    LET S == {i \in 1..Len(T) : T[i] <= target} IN
    IF S = {} THEN -1 ELSE (CHOOSE i \in S : \A j \in S : j <= i) - 1

\* C10: the index returned for a frame is 0 when the series has one element
\* or zero duration, and otherwise the index of the last timestamp <=
\* T[0] + frame * (1000 / target_fps) ms, clamped to [0, len(T) - 1].
C10_LastTimestampNotAfter ==
    frame >= 0 =>
        /\ idx \in 0..(Len(time_data) - 1)
        /\ idx = IF Len(time_data) = 1 \/ time_data[Len(time_data)] = time_data[1]
                 THEN 0
                 ELSE clip(LastNotAfter(time_data, time_data[1] + (frame * 1000) \div target_fps),
                           0, Len(time_data) - 1)


\* the members of a set of indices, in ascending order
Ascending(S) ==
    CHOOSE f \in [1..Cardinality(S) -> S] :
        \A a, b \in 1..Cardinality(S) : a < b => f[a] < f[b]

\* the 1-based indices i with T[d] - w <= T[i] <= T[d], d being 0-based
WindowIndices(T, d, w) == {i \in 1..Len(T) : T[d + 1] - w <= T[i] /\ T[i] <= T[d + 1]}

\* C11: the window of the frame drawn last, at data index idx with window
\* length data_window_s, selects exactly the indices i with
\* T[idx] - w <= T[i] <= T[idx], both ends inclusive; the time slice is the
\* timestamps at those indices in order, every one of them within the two
\* bounds, and every channel's value slice is taken at the same indices.
C11_WindowExact ==
    frame >= 0 =>
        LET w == data_window_s * 1000
            S == WindowIndices(time_data, idx, w)
            I == Ascending(S)
        IN  /\ \A i \in 1..Len(time_data) : mask[i] <=> i \in S
            /\ t = [k \in 1..Cardinality(S) |-> time_data[I[k]]]
            /\ \A k \in 1..Len(t) :
                   time_data[idx + 1] - w <= t[k] /\ t[k] <= time_data[idx + 1]
            /\ Len(y) = Len(sensor_cols)
            /\ \A c \in 1..Len(y) :
                   y[c] = [k \in 1..Cardinality(S) |-> ride_height_data[I[k]][c]]

\* a frame whose window has a timestamp exactly on its lower end, leaves a
\* record out, and has two channels
C11_Witness ==
    /\ frame >= 0
    /\ Len(sensor_cols) >= 2
    /\ \E i \in 1..Len(time_data) :
           mask[i] /\ time_data[i] = time_data[idx + 1] - data_window_s * 1000
    /\ \E j \in 1..Len(time_data) : ~mask[j]


\* the records of the file whose timestamp parses (1-based record numbers)
Parseable(file) == {k \in 1..Len(file.recs) : file.recs[k].ts.ok}

\* C12: once the load has run, it has failed (the script has exited and no
\* frame is ever computed) whenever no column matches the naming convention
\* and whenever the resulting series is empty, be it that every record was
\* dropped or that the log holds no data record at all.
C12_LoadFails ==
    (vpc # "load" /\ (select_mm(csv_in.cols, 1) = <<>> \/ Parseable(csv_in) = {}))
        => (vpc = "exited" /\ frame = -1)


\* C13: a successful load keeps exactly the records whose timestamp parses,
\* in file order, and drops every other record with all of its values: the
\* timestamp sequence and the value matrix have one row per kept record, and
\* row i of both comes from the same record of the log.
C13_LoaderKeepsParseable ==
    vpc = "ready" =>
        LET K == Parseable(csv_in)
            I == Ascending(K)
        IN  /\ Len(time_data) = Cardinality(K)
            /\ Len(ride_height_data) = Cardinality(K)
            /\ \A i \in 1..Cardinality(K) :
                   /\ df_index[i] = I[i] - 1
                   /\ time_data[i] = csv_in.recs[I[i]].ts.ms
                   /\ Len(ride_height_data[i]) = Len(sensor_cols)
                   /\ \A j \in 1..Len(sensor_cols) :
                          ride_height_data[i][j] = csv_in.recs[I[i]].vals[sensor_cols[j]]

\* a load that dropped a record lying between two kept ones
C13_Witness ==
    /\ vpc = "ready"
    /\ Len(csv_in.recs) = 3
    /\ ~csv_in.recs[2].ts.ok
    /\ df_index = <<0, 2>>
    /\ Len(sensor_cols) >= 2


\* C17: the timestamp sequence of every successfully loaded series is
\* non-decreasing, whatever the order of the records in the log.
C17_NonDecreasing ==
    vpc = "ready" =>
        \A i \in 1..(Len(time_data) - 1) : time_data[i] <= time_data[i + 1]

\* C20: the window of every frame drawn contains the mapped data index
\* itself, so the time slice is not empty and its last timestamp is the
\* timestamp at that index.
C20_WindowHoldsIndex ==
    frame >= 0 =>
        /\ mask[idx + 1]
        /\ t # <<>>
        /\ t[Len(t)] = time_data[idx + 1]


C15_StopTerminates ==
    /\ [][~running => ~(pc = "while" /\ pc' = "read")]_vars
    /\ [](StopReturned => ThreadFinished)
    /\ (mainpc = "wait") ~> (failed \/ StopReturned)

\* stop() requested while the thread sleeps between two rounds
C15_Witness ==
    /\ mainpc = "wait"
    /\ pc = "sleeping"
    /\ now < wake
    /\ ~running


\* the rounds emitted so far, oldest first: the values of every row produced
\* and the round emitted but not yet appended
Emitted ==
    [k \in 1..Len(produced) |-> Tail(produced[k])]
        \o (IF pc = "append" THEN <<current_data_row_values>> ELSE <<>>)

\* the rounds the display sink has handled
Received == SubSeq(Emitted, 1, Len(Emitted) - Len(uiQueue))

\* the values received for buffer i, absent readings as NaN
ReceivedFor(i) ==
    LET R == SelectSeq(Received, LAMBDA r : i <= Len(r))
    IN  [k \in 1..Len(R) |-> IF R[k][i] = None THEN NaN ELSE R[k][i]]

\* the last k entries of a sequence, all of it when it is shorter
LastK(s, k) == IF Len(s) <= k THEN s ELSE SubSeq(s, Len(s) - k + 1, Len(s))

\* C16: after any sequence of rounds received by the display sink, every
\* rolling buffer holds exactly the last min(K, n) values received for it,
\* in arrival order, an absent reading as NaN; so its length never exceeds
\* K and a value received by a full buffer evicts exactly the oldest one.
C16_RollingBuffer ==
    \A i \in 1..Len(SENSORS) :
        /\ data_buffers[i] = LastK(ReceivedFor(i), DequeMaxLen)
        /\ Len(data_buffers[i]) <= DequeMaxLen

\* more rounds received than a buffer holds, one of them with an absent reading
C16_Witness ==
    /\ Len(instruments) = Len(SENSORS)
    /\ Len(Received) > DequeMaxLen
    /\ Len(data_buffers[1]) = DequeMaxLen
    /\ \E k \in 1..Len(data_buffers[2]) : data_buffers[2][k] = NaN
    /\ Received[1][1] # None


\* C18: while the sampling loop is running and no write has failed, the data
\* records of the log followed by the rows of the pending buffer are exactly
\* the rounds produced so far, in order, none missing and none twice; and no
\* step changes a record already in the log.
C18_Conservation ==
    /\ []((InLoop /\ ~failed) => DataRows(csv.recs) \o readings_buffer = produced)
    /\ [][/\ Len(csv.recs) <= Len(csv'.recs)
          /\ \A i \in 1..Len(csv.recs) :
                 /\ csv'.recs[i].hdr = csv.recs[i].hdr
                 /\ csv'.recs[i] = csv.recs[i]]_vars

\* the loop running with rounds in the log and a round in the buffer
C18_Witness ==
    /\ InLoop
    /\ ~failed
    /\ flushes >= 1
    /\ Len(DataRows(csv.recs)) >= 2
    /\ readings_buffer # <<>>


\* C19: every data record has exactly one value field per channel column of
\* the header, and field i holds the reading of the channel named in header
\* column i; likewise entry i of every round handed to the display belongs
\* to the channel of display buffer i.  Entry i of a round is read from
\* instruments[i], header column i and display buffer i belong to SENSORS[i].
C19_FieldsMatchHeader ==
    /\ \A k \in 1..Len(produced) :
           /\ Len(produced[k]) = Len(CSV_HEADER)
           /\ \A i \in 1..(Len(produced[k]) - 1) : instruments[i] = i
    /\ \A k \in 1..Len(DataRows(csv.recs)) :
           Len(DataRows(csv.recs)[k]) = Len(CSV_HEADER)
    /\ \A k \in 1..Len(Emitted) :
           /\ Len(Emitted[k]) = Len(data_buffers)
           /\ \A i \in 1..Len(Emitted[k]) : instruments[i] = i

=============================================================================
